---- MODULE Spec2Model ----
(***************************************************************************)
(* Model of app/producer.py: a Kafka load generator.  main() plans a       *)
(* number of batches, sends JOB_BATCH_SIZE messages per batch through a    *)
(* confluent_kafka Producer (retrying on BufferError after a 100ms poll),  *)
(* polls after each batch, and flushes before printing a summary.          *)
(*                                                                         *)
(* The control thread is a pc-indexed state machine, one action per        *)
(* statement group of main()/send().  The Producer client is modelled by   *)
(* the list of messages handed to it, each with a delivery status; the     *)
(* broker resolves in-flight messages at any time and in any order, and    *)
(* the delivery callbacks run only inside poll()/flush().                  *)
(***************************************************************************)
EXTENDS Integers, Sequences, FiniteSets, TLC

\* ---- bounds of the model -------------------------------------------------
MaxBytes     == 4   \* JOB_MAX_BYTES ranges over 0..MaxBytes
MaxMsgBytes  == 2   \* JOB_MSG_BYTES ranges over 1..MaxMsgBytes
MaxBatchSize == 2   \* JOB_BATCH_SIZE ranges over 1..MaxBatchSize
QueueCap     == 2   \* messages the client's local queue holds before BufferError
MaxRetry     == 2   \* BufferError reports explored per message

VARIABLES
  JOB_MAX_BYTES,    \* T, line 21
  JOB_MSG_BYTES,    \* M, line 20
  JOB_BATCH_SIZE,   \* B, line 23
  pc,               \* position of the control thread in main()/send()
  running,          \* line 74
  bytes_sent,       \* line 75
  total_messages,   \* line 93
  batches,          \* line 94
  last_batch_rate,  \* line 96 (a rate in bytes/s; only ever 0)
  batch_i,          \* outer iterations of `for _ in range(batches)` started
  msg_j,            \* inner iterations of `for _ in range(JOB_BATCH_SIZE)` completed
  t_n,              \* tqdm's completed-unit count (t.update(1))
  producer,         \* the client: delivery status of each message handed to it
  msg_ids,          \* for each message handed over, the send() call it came from
  callbacks,        \* per message, the number of on_delivery_cb invocations
  stderr,           \* per message, the number of "Delivery failed" lines
  attempts,         \* producer.produce() calls made by the current send()
  polls,            \* producer.poll(0.1) calls made by the current send()
  fulls,            \* BufferError reports the client gave the current send()
  flush_calls,      \* producer.flush() calls
  flag_checks,      \* evaluations of `if not running` (line 100)
  poll0_calls,      \* producer.poll(0) calls (lines 103 and 112)
  postfix,          \* the "sent" value last given to t.set_postfix (bytes)
  batch_end_ready,  \* messages whose outcome was ready when the last inner loop ended
  flush_at,         \* <<>>, or <<messages handed over, t_n>> when flush() was last called
  summary,          \* <<>> until line 127-128 prints <<bytes_sent, last_batch_rate>>
  stop_at           \* <<>>, or where the stop flag was set: <<pc, batches done, messages sent>>

vars == <<JOB_MAX_BYTES, JOB_MSG_BYTES, JOB_BATCH_SIZE, pc, running, bytes_sent,
          total_messages, batches, last_batch_rate, batch_i, msg_j, t_n,
          producer, msg_ids, callbacks, stderr, attempts, polls, fulls,
          flush_calls, flag_checks, poll0_calls, postfix, batch_end_ready,
          flush_at, summary, stop_at>>

config   == <<JOB_MAX_BYTES, JOB_MSG_BYTES, JOB_BATCH_SIZE>>
plan     == <<total_messages, batches>>
client   == <<producer, msg_ids, callbacks, stderr>>
counters == <<attempts, polls, fulls>>
progress == <<poll0_calls, postfix, batch_end_ready>>
flush_state == <<flush_calls, flush_at>>

\* The configurations explored: every small one, and the spec's worked example.
Configs ==
  ((0..MaxBytes) \X (1..MaxMsgBytes) \X (1..MaxBatchSize)) \cup {<<1000, 300, 3>>}

\* ---- pure helpers ----------------------------------------------------------

\* math.ceil(a / b) for integers a >= 0, b > 0.  Python's a / b is a float
\* division; it is exact enough for ceil to be the integer ceiling while
\* a < 2^53, which covers every configuration explored here.
CeilDivFloor(a, b) == a \div b
CeilDivPlusOne(a, b) == (a \div b) + 1
CeilDiv(a, b) == IF a % b = 0 THEN a \div b ELSE (a \div b) + 1

Ready(st) == st \in {"ok_ready", "err_ready"}
Acked(st) == st \in {"acked_ok", "acked_err"}

\* Messages occupying the client's local queue: handed over, callback not yet served.
Outstanding == {k \in 1..Len(producer) : ~Acked(producer[k])}

\* The client raises BufferError when its local queue is full.
QueueFull == Cardinality(Outstanding) >= QueueCap

\* on_delivery_cb(err, msg): the number of stderr lines for msg after the call.
OnDeliveryCbAlways(err, lines) == lines + 1
OnDeliveryCb(err, lines) == IF err THEN lines + 1 ELSE lines

\* What poll()/flush() do to the client: every resolved message's callback is
\* invoked once, on the calling thread, and the message leaves the queue.
ServedStatus(st) ==
  IF st = "ok_ready" THEN "acked_ok" ELSE IF st = "err_ready" THEN "acked_err" ELSE st

ServeCallbacks ==
  /\ producer'  = [k \in 1..Len(producer) |-> ServedStatus(producer[k])]
  /\ callbacks' = [k \in 1..Len(producer) |->
                     IF Ready(producer[k]) THEN callbacks[k] + 1 ELSE callbacks[k]]
  /\ stderr'    = [k \in 1..Len(producer) |->
                     IF Ready(producer[k])
                       THEN OnDeliveryCb(producer[k] = "err_ready", stderr[k])
                       ELSE stderr[k]]
  /\ UNCHANGED msg_ids

\* The send() call in progress is the SendIndex-th of the run.
SendIndex == (batch_i - 1) * JOB_BATCH_SIZE + msg_j + 1

\* ---- initial state -----------------------------------------------------------
Init ==
  /\ \E c \in Configs :
       /\ JOB_MAX_BYTES = c[1]
       /\ JOB_MSG_BYTES = c[2]
       /\ JOB_BATCH_SIZE = c[3]
  /\ pc = "plan"
  /\ running = TRUE
  /\ bytes_sent = 0
  /\ total_messages = 0
  /\ batches = 0
  /\ last_batch_rate = 0
  /\ batch_i = 0
  /\ msg_j = 0
  /\ t_n = 0
  /\ producer = <<>>
  /\ msg_ids = <<>>
  /\ callbacks = <<>>
  /\ stderr = <<>>
  /\ attempts = 0
  /\ polls = 0
  /\ fulls = 0
  /\ flush_calls = 0
  /\ flag_checks = 0
  /\ poll0_calls = 0
  /\ postfix = 0
  /\ batch_end_ready = {}
  /\ flush_at = <<>>
  /\ summary = <<>>
  /\ stop_at = <<>>

\* ---- the control thread ------------------------------------------------------

\* Lines 92-97: compute the batch counts, initialise last_batch_rate.
Plan ==
  /\ pc = "plan"
  /\ total_messages' = CeilDiv(JOB_MAX_BYTES, JOB_MSG_BYTES)
  /\ batches' = CeilDiv(CeilDiv(JOB_MAX_BYTES, JOB_MSG_BYTES), JOB_BATCH_SIZE)
  /\ last_batch_rate' = 0
  /\ pc' = "loop"
  /\ UNCHANGED <<config, running, bytes_sent, batch_i, msg_j, t_n, client,
                 counters, flush_state, summary, stop_at, flag_checks,
                 progress>>

\* Lines 99-103 and 107: the head of `for _ in range(batches)`.  The loop ends
\* when the range is exhausted or the stop flag is down; otherwise poll(0)
\* serves the ready callbacks and the first send() of the batch begins.
LoopHeadIgnoreFlag ==
  /\ pc = "loop"
  /\ IF batch_i >= batches
       THEN /\ pc' = "flush"
            /\ UNCHANGED <<batch_i, msg_j, client, counters, flag_checks, poll0_calls>>
       ELSE /\ flag_checks' = flag_checks + 1
            /\ ServeCallbacks
            /\ poll0_calls' = poll0_calls + 1
            /\ batch_i' = batch_i + 1
            /\ msg_j' = 0
            /\ attempts' = 0 /\ polls' = 0 /\ fulls' = 0
            /\ pc' = "send"
  /\ batch_end_ready' = {}
  /\ UNCHANGED <<config, plan, running, bytes_sent, last_batch_rate, t_n,
                 flush_state, summary, stop_at, postfix>>
LoopHead ==
  /\ pc = "loop"
  /\ IF batch_i >= batches
       THEN \* the range is exhausted: the loop body is not entered
            /\ pc' = "flush"
            /\ UNCHANGED <<batch_i, msg_j, client, counters, flag_checks, poll0_calls>>
       ELSE /\ flag_checks' = flag_checks + 1
            /\ IF ~running
                 THEN \* line 101: break
                      /\ pc' = "flush"
                      /\ UNCHANGED <<batch_i, msg_j, client, counters, poll0_calls>>
                 ELSE /\ ServeCallbacks
                      /\ poll0_calls' = poll0_calls + 1
                      /\ batch_i' = batch_i + 1
                      /\ msg_j' = 0
                      /\ attempts' = 0 /\ polls' = 0 /\ fulls' = 0
                      /\ pc' = "send"
  /\ batch_end_ready' = {}
  /\ UNCHANGED <<config, plan, running, bytes_sent, last_batch_rate, t_n,
                 flush_state, summary, stop_at, postfix>>

\* Lines 85-87: producer.produce() accepts the message; send() returns.
ProduceOk ==
  /\ pc = "send"
  /\ ~QueueFull
  /\ attempts' = attempts + 1
  /\ producer' = Append(producer, "inflight")
  /\ msg_ids' = Append(msg_ids, SendIndex)
  /\ callbacks' = Append(callbacks, 0)
  /\ stderr' = Append(stderr, 0)
  /\ pc' = "count"
  /\ UNCHANGED <<config, plan, running, bytes_sent, last_batch_rate, batch_i,
                 msg_j, t_n, polls, fulls, flush_state, summary, stop_at, flag_checks,
                 progress>>

\* Lines 86, 88: producer.produce() raises BufferError; send() catches it.
ProduceFull ==
  /\ pc = "send"
  /\ QueueFull
  /\ fulls < MaxRetry
  /\ attempts' = attempts + 1
  /\ fulls' = fulls + 1
  /\ pc' = "backoff"
  /\ UNCHANGED <<config, plan, running, bytes_sent, last_batch_rate, batch_i,
                 msg_j, t_n, client, polls, flush_state, summary, stop_at, flag_checks,
                 progress>>

\* Line 86: producer.produce() raises anything else (KafkaException, e.g. a
\* message larger than message.max.bytes).  send() has no handler for it, nor
\* has main(): the exception leaves main() and the process ends.
ProduceRaiseLowersFlag ==
  /\ pc = "send"
  /\ attempts' = attempts + 1
  /\ running' = FALSE
  /\ pc' = "send"
  /\ UNCHANGED <<config, plan, bytes_sent, last_batch_rate, batch_i,
                 msg_j, t_n, client, polls, fulls, flush_state, summary, stop_at,
                 flag_checks, progress>>
ProduceRaise ==
  /\ pc = "send"
  /\ attempts' = attempts + 1
  /\ pc' = "aborted"
  /\ UNCHANGED <<config, plan, running, bytes_sent, last_batch_rate, batch_i,
                 msg_j, t_n, client, polls, fulls, flush_state, summary, stop_at, flag_checks,
                 progress>>

\* Lines 88-90: producer.poll(0.1), then retry the same message.
BackoffSkip ==
  /\ pc = "backoff"
  /\ ServeCallbacks
  /\ polls' = polls + 1
  /\ pc' = "count"
  /\ UNCHANGED <<config, plan, running, bytes_sent, last_batch_rate, batch_i,
                 msg_j, t_n, attempts, fulls, flush_state, summary, stop_at, flag_checks,
                 progress>>
Backoff ==
  /\ pc = "backoff"
  /\ ServeCallbacks
  /\ polls' = polls + 1
  /\ pc' = "send"
  /\ UNCHANGED <<config, plan, running, bytes_sent, last_batch_rate, batch_i,
                 msg_j, t_n, attempts, fulls, flush_state, summary, stop_at, flag_checks,
                 progress>>

\* Lines 107, 109: bytes_sent += JOB_MSG_BYTES, then the next inner iteration.
CountServing ==
  /\ pc = "count"
  /\ ServeCallbacks
  /\ bytes_sent' = bytes_sent + JOB_MSG_BYTES
  /\ msg_j' = msg_j + 1
  /\ attempts' = 0 /\ polls' = 0 /\ fulls' = 0
  /\ pc' = IF msg_j + 1 < JOB_BATCH_SIZE THEN "send" ELSE "report"
  /\ batch_end_ready' = IF msg_j + 1 < JOB_BATCH_SIZE
                          THEN batch_end_ready
                          ELSE {k \in 1..Len(producer) : Ready(producer[k])}
  /\ UNCHANGED <<config, plan, running, last_batch_rate, batch_i, t_n,
                 flush_state, summary, stop_at, flag_checks,
                 poll0_calls, postfix>>
CountUntilPlanned ==
  /\ pc = "count"
  /\ bytes_sent' = bytes_sent + JOB_MSG_BYTES
  /\ msg_j' = msg_j + 1
  /\ attempts' = 0 /\ polls' = 0 /\ fulls' = 0
  /\ pc' = IF msg_j + 1 < JOB_BATCH_SIZE /\ Len(producer) < total_messages
             THEN "send" ELSE "report"
  /\ batch_end_ready' = IF msg_j + 1 < JOB_BATCH_SIZE /\ Len(producer) < total_messages
                          THEN batch_end_ready
                          ELSE {k \in 1..Len(producer) : Ready(producer[k])}
  /\ UNCHANGED <<config, plan, running, last_batch_rate, batch_i, t_n, client,
                 flush_state, summary, stop_at, flag_checks,
                 poll0_calls, postfix>>
CountTwice ==
  /\ pc = "count"
  /\ bytes_sent' = bytes_sent + 2 * JOB_MSG_BYTES
  /\ msg_j' = msg_j + 1
  /\ attempts' = 0 /\ polls' = 0 /\ fulls' = 0
  /\ pc' = IF msg_j + 1 < JOB_BATCH_SIZE THEN "send" ELSE "report"
  /\ batch_end_ready' = IF msg_j + 1 < JOB_BATCH_SIZE
                          THEN batch_end_ready
                          ELSE {k \in 1..Len(producer) : Ready(producer[k])}
  /\ UNCHANGED <<config, plan, running, last_batch_rate, batch_i, t_n, client,
                 flush_state, summary, stop_at, flag_checks,
                 poll0_calls, postfix>>
Count ==
  /\ pc = "count"
  /\ bytes_sent' = bytes_sent + JOB_MSG_BYTES
  /\ msg_j' = msg_j + 1
  /\ attempts' = 0 /\ polls' = 0 /\ fulls' = 0
  /\ pc' = IF msg_j + 1 < JOB_BATCH_SIZE THEN "send" ELSE "report"
  /\ batch_end_ready' = IF msg_j + 1 < JOB_BATCH_SIZE
                          THEN batch_end_ready
                          ELSE {k \in 1..Len(producer) : Ready(producer[k])}
  /\ UNCHANGED <<config, plan, running, last_batch_rate, batch_i, t_n, client,
                 flush_state, summary, stop_at, flag_checks,
                 poll0_calls, postfix>>

\* Lines 111-112: producer.poll(0) after the inner loop.
ReportNoPoll ==
  /\ pc = "report"
  /\ pc' = "update"
  /\ UNCHANGED <<config, plan, running, bytes_sent, last_batch_rate, batch_i,
                 msg_j, t_n, client, counters, flush_state, summary, stop_at,
                 flag_checks, progress>>
Report ==
  /\ pc = "report"
  /\ ServeCallbacks
  /\ poll0_calls' = poll0_calls + 1
  /\ pc' = "update"
  /\ UNCHANGED <<config, plan, running, bytes_sent, last_batch_rate, batch_i,
                 msg_j, t_n, counters, flush_state, summary, stop_at, flag_checks,
                 postfix, batch_end_ready>>

\* Lines 114-123: compute the average rate, t.set_postfix(...), t.update(1).
ProgressTwice ==
  /\ pc = "update"
  /\ postfix' = bytes_sent
  /\ t_n' = t_n + 2
  /\ pc' = "loop"
  /\ UNCHANGED <<config, plan, running, bytes_sent, last_batch_rate, batch_i,
                 msg_j, client, counters, flush_state, summary, stop_at,
                 flag_checks, poll0_calls, batch_end_ready>>
ProgressSetsLastRate ==
  /\ pc = "update"
  /\ postfix' = bytes_sent
  /\ last_batch_rate' = JOB_BATCH_SIZE * JOB_MSG_BYTES
  /\ t_n' = t_n + 1
  /\ pc' = "loop"
  /\ UNCHANGED <<config, plan, running, bytes_sent, batch_i,
                 msg_j, client, counters, flush_state, summary, stop_at,
                 flag_checks, poll0_calls, batch_end_ready>>
Progress ==
  /\ pc = "update"
  /\ postfix' = bytes_sent
  /\ t_n' = t_n + 1
  /\ pc' = "loop"
  /\ UNCHANGED <<config, plan, running, bytes_sent, last_batch_rate, batch_i,
                 msg_j, client, counters, flush_state, summary, stop_at,
                 flag_checks, poll0_calls, batch_end_ready>>

\* Line 126: producer.flush() is entered.
FlushCallSkipped ==
  /\ pc = "flush"
  /\ pc' = "summary"
  /\ UNCHANGED <<config, plan, running, bytes_sent, last_batch_rate, batch_i,
                 msg_j, t_n, client, counters, summary, stop_at, flag_checks,
                 progress, flush_state>>
FlushCall ==
  /\ pc = "flush"
  /\ flush_calls' = flush_calls + 1
  /\ flush_at' = <<Len(producer), t_n>>
  /\ pc' = "flushing"
  /\ UNCHANGED <<config, plan, running, bytes_sent, last_batch_rate, batch_i,
                 msg_j, t_n, client, counters, summary, stop_at, flag_checks,
                 progress>>

\* Line 126: inside flush(), callbacks of resolved messages are served.
FlushServe ==
  /\ pc = "flushing"
  /\ \E k \in 1..Len(producer) : Ready(producer[k])
  /\ ServeCallbacks
  /\ UNCHANGED <<config, plan, running, bytes_sent, last_batch_rate, batch_i,
                 msg_j, t_n, counters, flush_state, summary, stop_at, pc, flag_checks,
                 progress>>

\* Line 126: flush() returns once no message is outstanding.
FlushReturnEarly ==
  /\ pc = "flushing"
  /\ pc' = "summary"
  /\ UNCHANGED <<config, plan, running, bytes_sent, last_batch_rate, batch_i,
                 msg_j, t_n, client, counters, flush_state, summary, stop_at, flag_checks,
                 progress>>
FlushReturn ==
  /\ pc = "flushing"
  /\ Outstanding = {}
  /\ pc' = "summary"
  /\ UNCHANGED <<config, plan, running, bytes_sent, last_batch_rate, batch_i,
                 msg_j, t_n, client, counters, flush_state, summary, stop_at, flag_checks,
                 progress>>

\* Lines 127-128: print the totals; main() returns.
Summary ==
  /\ pc = "summary"
  /\ summary' = <<bytes_sent, last_batch_rate>>
  /\ pc' = "done"
  /\ UNCHANGED <<config, plan, running, bytes_sent, last_batch_rate, batch_i,
                 msg_j, t_n, client, counters, flush_state, stop_at, flag_checks,
                 progress>>

\* ---- the broker side of the client ---------------------------------------------

\* An in-flight message is delivered or fails; its callback becomes pending.
BrokerResolve ==
  /\ pc \notin {"plan", "summary", "done", "aborted"}
  /\ \E k \in 1..Len(producer) :
       /\ producer[k] = "inflight"
       /\ \E st \in {"ok_ready", "err_ready"} :
            producer' = [producer EXCEPT ![k] = st]
  /\ UNCHANGED <<config, plan, pc, running, bytes_sent, last_batch_rate, batch_i,
                 msg_j, t_n, msg_ids, callbacks, stderr, counters, flush_state,
                 summary, stop_at, flag_checks,
                 progress>>

\* ---- cooperative cancellation ------------------------------------------------------

\* The stop flag is lowered while the batch loop runs.
SetStop ==
  /\ running
  /\ pc \in {"loop", "send", "backoff", "count", "report", "update"}
  /\ running' = FALSE
  /\ stop_at' = <<pc, t_n, Len(producer)>>
  /\ UNCHANGED <<config, plan, pc, bytes_sent, last_batch_rate, batch_i, msg_j,
                 t_n, client, counters, flush_state, summary, flag_checks,
                 progress>>

\* ---- specifications ------------------------------------------------------------------
Next ==
  \/ Plan
  \/ LoopHead
  \/ ProduceOk
  \/ ProduceFull
  \/ ProduceRaise
  \/ Backoff
  \/ Count
  \/ Report
  \/ Progress
  \/ FlushCall
  \/ FlushServe
  \/ FlushReturn
  \/ Summary
  \/ BrokerResolve

Spec == Init /\ [][Next]_vars

\* A step of the control thread (any action but the broker's).
ControlStep ==
  \/ Plan
  \/ LoopHead
  \/ ProduceOk
  \/ ProduceFull
  \/ ProduceRaise
  \/ Backoff
  \/ Count
  \/ Report
  \/ Progress
  \/ FlushCall
  \/ FlushServe
  \/ FlushReturn
  \/ Summary

NextCancel == Next \/ SetStop

SpecCancel == Init /\ [][NextCancel]_vars

\* ---- properties --------------------------------------------------------------------------

T == JOB_MAX_BYTES
M == JOB_MSG_BYTES
B == JOB_BATCH_SIZE

Finished == pc = "done"

\* C1: after a full, un-cancelled run the byte counter equals
\* total_messages * M exactly, with total_messages = ceil(T / M).
C1_BytesEqualPlannedMessages ==
  (Finished /\ running) =>
     /\ bytes_sent = total_messages * M
     /\ summary[1] = total_messages * M

\* C2: the run hands exactly total_messages messages to the client, never
\* more: the final batch issues only the messages that remain of the plan.
C2_ExactlyPlannedMessages ==
  /\ running => Len(producer) <= total_messages
  /\ (Finished /\ running) => Len(producer) = total_messages

\* C3: for positive T, M, B the planner yields total_messages = ceil(T / M),
\* the least n with n * M >= T, and batches = ceil(total_messages / B), the
\* least b with b * B >= total_messages; T=1000, M=300, B=3 gives 4 and 2.
C3_PlanIsCeiling ==
  (pc # "plan" /\ T > 0) =>
     /\ total_messages * M >= T
     /\ (total_messages - 1) * M < T
     /\ batches * B >= total_messages
     /\ (batches - 1) * B < total_messages
     /\ (config = <<1000, 300, 3>> => total_messages = 4 /\ batches = 2)

C3_Witness ==
  /\ pc # "plan"
  /\ config = <<1000, 300, 3>>
  /\ total_messages = 4
  /\ batches = 2

\* C4: a message the client refuses k times with BufferError and then accepts
\* costs send() exactly k + 1 produce attempts and k polls of 100ms, one after
\* each refusal; it is handed over exactly once, in its turn: the n-th message
\* of the client is the n-th send() of the run, and no later send() starts
\* before it is accepted.
C4_RetryUntilAccepted ==
  /\ pc = "send"    => attempts = fulls /\ polls = fulls
  /\ pc = "backoff" => attempts = fulls /\ polls = fulls - 1
  /\ pc = "count"   => attempts = fulls + 1 /\ polls = fulls
  /\ \A k \in 1..Len(msg_ids) : msg_ids[k] = k
  /\ pc \in {"send", "backoff"} => Len(msg_ids) = SendIndex - 1
  /\ pc = "count" => Len(msg_ids) = SendIndex

C4_Witness ==
  /\ pc = "count"
  /\ fulls >= 2
  /\ attempts = fulls + 1
  /\ Len(msg_ids) >= 3

\* C5: when the final summary is printed, every message handed to the client
\* has had exactly one delivery callback; at no time has a message had more
\* than one, and none is still in flight at completion.
C5_OneCallbackEachAtCompletion ==
  /\ \A k \in 1..Len(producer) :
       callbacks[k] = (IF Acked(producer[k]) THEN 1 ELSE 0)
  /\ summary # <<>> => \A k \in 1..Len(producer) : callbacks[k] = 1

C5_Witness ==
  /\ Finished
  /\ Len(producer) >= 2
  /\ \E k \in 1..Len(producer) : producer[k] = "acked_err"
  /\ \E k \in 1..Len(producer) : producer[k] = "acked_ok"
  /\ \A k \in 1..Len(producer) : callbacks[k] = 1

\* C6: a delivery failure is logged exactly once for the failed message and
\* for no other, the failed message is not handed over again, the run still
\* sends every message of every batch, and the final byte total is the one of
\* a run without failures (it depends on the configuration alone).
C6_DeliveryFailureAbsorbed ==
  /\ \A k \in 1..Len(producer) :
       stderr[k] = (IF producer[k] = "acked_err" THEN 1 ELSE 0)
  /\ Len(producer) <= batches * B
  /\ \A k \in 1..Len(msg_ids) : \A l \in 1..Len(msg_ids) :
       msg_ids[k] = msg_ids[l] => k = l
  /\ Finished =>
       /\ Len(producer) = batches * B
       /\ bytes_sent = batches * B * M
       /\ summary[1] = batches * B * M

C6_Witness ==
  /\ Finished
  /\ Len(producer) >= 4
  /\ producer[3] = "acked_err"
  /\ stderr[3] = 1
  /\ \A k \in 1..Len(producer) : k # 3 => producer[k] = "acked_ok" /\ stderr[k] = 0
  /\ bytes_sent = Len(producer) * M

\* Where the stop flag was lowered.
Stopped       == stop_at # <<>>
StopPc        == stop_at[1]
StopBatches   == stop_at[2]
StopMessages  == stop_at[3]

\* The last message of the batch that was in progress when the flag was lowered.
StopBatchEnd ==
  IF StopPc = "loop" THEN StopMessages ELSE (StopBatches + 1) * B

\* C7: if the stop flag is lowered between batches, after batch i of n, no
\* further message is produced, the loop goes straight to the flush, which is
\* called once, and the run reports bytes_sent = i * B * M, not n * B * M.
C7_StopAfterBatch ==
  (Stopped /\ StopPc = "loop") =>
     /\ Len(producer) = StopMessages
     /\ Len(producer) = StopBatches * B
     /\ pc \in {"loop", "flush", "flushing", "summary", "done"}
     /\ Finished =>
          /\ flush_calls = 1
          /\ bytes_sent = StopBatches * B * M
          /\ summary[1] = StopBatches * B * M
          /\ StopBatches < batches => summary[1] # batches * B * M

C7_Witness ==
  /\ Finished
  /\ Stopped
  /\ StopPc = "loop"
  /\ StopBatches >= 1
  /\ StopBatches < batches
  /\ flush_calls = 1
  /\ summary[1] = StopBatches * B * M

C9_NoMessageErrorAborts == pc # "aborted"

\* C10: bytes_sent is M times the number of messages handed to the client,
\* except between a hand-off and its increment, where it lags by one M; so a
\* refused attempt, a poll, a callback and the flush leave it alone.
C10_BytesCountEnqueues ==
  /\ pc # "count" => bytes_sent = M * Len(producer)
  /\ pc = "count" => bytes_sent = M * (Len(producer) - 1)

C10_Witness ==
  /\ pc = "send"
  /\ fulls >= 1
  /\ polls >= 1
  /\ Len(producer) >= 2
  /\ \E k \in 1..Len(producer) : Acked(producer[k])
  /\ bytes_sent = M * Len(producer)

\* C11: on every path out of the batch loop (range exhausted, or break on the
\* stop flag) flush() is called exactly once, after the last produce and the
\* last progress update and before the summary: nothing is handed to the
\* client and the progress bar does not move once flush() has been called.
C11_FlushOnceBeforeSummary ==
  /\ flush_calls <= 1
  /\ pc \in {"plan", "loop", "send", "backoff", "count", "report", "update", "flush"} =>
       flush_calls = 0 /\ summary = <<>>
  /\ pc \in {"flushing", "summary", "done"} =>
       /\ flush_calls = 1
       /\ flush_at = <<Len(producer), t_n>>
       /\ bytes_sent = M * Len(producer)
  /\ pc = "flushing" => summary = <<>>
  /\ summary # <<>> => flush_calls = 1 /\ Finished

C11_Witness ==
  /\ Finished
  /\ Stopped
  /\ batch_i >= 1
  /\ batch_i < batches
  /\ flush_calls = 1
  /\ flush_at = <<batch_i * B, batch_i>>
  /\ summary # <<>>

\* The control thread has no step to take.
Halted == ~ENABLED ControlStep

\* C12: the run reaches completion unless it waits in the buffer-full retry
\* loop or in the final flush: wherever else the control thread has stopped,
\* the summary has been printed.
C12_StopsOnlyCompleted ==
  (Halted /\ pc \notin {"send", "backoff", "flushing"}) => Finished

\* C13: in every batch, between the end of the inner loop and the progress
\* update, the control thread makes one poll(0) (the batch's second, after
\* the one at its head); every outcome that was ready when the inner loop
\* ended has had its callback by the time of the update, hence before the
\* next batch's first produce.
C13_PollAfterInnerLoop ==
  /\ pc = "report" => poll0_calls = 2 * batch_i - 1 /\ t_n = batch_i - 1
  /\ pc = "update" => poll0_calls = 2 * batch_i /\ t_n = batch_i - 1
  /\ pc = "loop" => poll0_calls = 2 * t_n
  /\ pc \in {"update", "loop"} =>
       \A k \in batch_end_ready : Acked(producer[k]) /\ callbacks[k] = 1

C13_Witness ==
  /\ pc = "update"
  /\ batch_i >= 2
  /\ poll0_calls = 2 * batch_i
  /\ batch_end_ready # {}
  /\ \A k \in batch_end_ready : Acked(producer[k])

\* C14: a delivery callback is invoked (and a failure line written) only by a
\* step in which the control thread is inside poll() or flush(): never while
\* it is in produce(), updating bytes_sent or updating the progress display.
C14_CallbacksOnlyInPoll ==
  [][ (\E k \in 1..Len(callbacks) :
          callbacks'[k] # callbacks[k] \/ stderr'[k] # stderr[k])
        => /\ pc \in {"loop", "backoff", "report", "flushing"}
           /\ bytes_sent' = bytes_sent
           /\ t_n' = t_n
           /\ Len(producer') = Len(producer) ]_vars

\* An outcome is pending while the thread is between produce() and the
\* bytes_sent update, and its callback has not run; earlier ones have.
C14_Witness ==
  /\ pc = "count"
  /\ \E k \in 1..Len(producer) : Ready(producer[k]) /\ callbacks[k] = 0
  /\ \E k \in 1..Len(producer) : Acked(producer[k]) /\ callbacks[k] = 1

\* C15: the progress bar's count starts at 0, goes up by one per batch
\* iteration, after that batch's sends, never exceeds the planned number of
\* batches and equals it when an un-cancelled run reaches the flush.
C15_ProgressCount ==
  /\ pc = "plan" => t_n = 0
  /\ t_n <= batches
  /\ pc \in {"send", "backoff", "count", "report", "update", "aborted"} => t_n = batch_i - 1
  /\ pc = "loop" => t_n = batch_i /\ Len(producer) = t_n * B
  /\ t_n * B <= Len(producer)
  /\ (pc \in {"flush", "flushing", "summary", "done"} /\ running) => t_n = batches

C15_Witness ==
  /\ pc = "flush"
  /\ running
  /\ batches >= 2
  /\ t_n = batches
  /\ Len(producer) = batches * B

\* C16: last_batch_rate is 0 in every reachable state, so the summary prints
\* a last-batch throughput of 0 whatever was sent.
C16_LastBatchRateStale ==
  /\ last_batch_rate = 0
  /\ summary # <<>> => summary[2] = 0

C16_Witness ==
  /\ Finished
  /\ bytes_sent >= 2 * M
  /\ last_batch_rate = 0
  /\ summary = <<bytes_sent, 0>>

\* C17: the progress report after the j-th batch iteration shows
\* bytes_sent = j * B * M; an un-cancelled run makes batches * B successful
\* enqueues and ends with batches * B * M bytes, whatever the refusals and the
\* delivery outcomes were.
C17_BytesPerBatch ==
  /\ pc = "update" => bytes_sent = batch_i * B * M
  /\ t_n >= 1 => postfix = t_n * B * M
  /\ pc = "loop" => bytes_sent = t_n * B * M
  /\ (Finished /\ running) =>
       /\ Len(producer) = batches * B
       /\ bytes_sent = batches * B * M
       /\ summary[1] = batches * B * M

C17_Witness ==
  /\ Finished
  /\ running
  /\ t_n >= 2
  /\ total_messages < batches * B
  /\ postfix = batches * B * M
  /\ summary[1] = batches * B * M
  /\ \E k \in 1..Len(producer) : producer[k] = "acked_err"

\* C18: the stop flag is up in every reachable state; the break on line 101
\* is never taken, so the batch loop is left only with the range exhausted
\* (or by an exception out of produce()).
C18_RunningAlwaysTrue ==
  /\ running
  /\ stop_at = <<>>
  /\ pc \in {"flush", "flushing", "summary", "done"} =>
       batch_i = batches /\ flag_checks = batches
  /\ pc = "aborted" => batch_i >= 1 /\ batch_i <= batches /\ flush_calls = 0

C18_Witness ==
  /\ pc = "flush"
  /\ running
  /\ batches >= 2
  /\ batch_i = batches
  /\ flag_checks = batches

\* C19: with T = 0 the plan is 0 messages in 0 batches: no produce, no poll,
\* one flush, and a reported total of 0 bytes.
C19_ZeroTarget ==
  (T = 0 /\ pc # "plan") =>
     /\ total_messages = 0
     /\ batches = 0
     /\ pc \in {"loop", "flush", "flushing", "summary", "done"}
     /\ Len(producer) = 0
     /\ attempts = 0
     /\ polls = 0
     /\ poll0_calls = 0
     /\ bytes_sent = 0
     /\ t_n = 0
     /\ pc \in {"flushing", "summary", "done"} => flush_calls = 1
     /\ Finished => summary[1] = 0

C19_Witness ==
  /\ Finished
  /\ T = 0
  /\ batches = 0
  /\ flush_calls = 1
  /\ poll0_calls = 0
  /\ summary = <<0, 0>>

====
